---------------------------- MODULE Spec2Model ----------------------------
(***************************************************************************)
(* Model of remote/endpoint_writer.go: the endpointWriter actor, its       *)
(* connect handshake, its inbound monitor goroutine and the assembly of    *)
(* MessageBatch frames with their lookup tables.                           *)
(***************************************************************************)
EXTENDS Integers, Sequences, FiniteSets, TLC

(***************************************************************************)
(* Bounds of the model.                                                    *)
(***************************************************************************)
\* Longest batch handed to sendEnvelopes.
MaxLen == 2
\* Restarts the supervisor grants.
MaxRestarts == 1
\* Messages the peers send after a handshake, over all streams.
MaxInbound == 1
\* MessageBatch frames sent, over all streams.
MaxSends == 1

(***************************************************************************)
(* Values.                                                                 *)
(***************************************************************************)
\* A nil pointer / nil interface value.
Nil == [nil |-> TRUE]

\* actor.PID{Address, Id, RequestId}
PID(address, id, requestId) ==
    [Address |-> address, Id |-> id, RequestId |-> requestId]

\* The empty Go map and the map operations used by the lookups.
EmptyMap == [k \in {} |-> 0]

MapHas(m, k) == k \in DOMAIN m

MapPut(m, k, v) == [x \in (DOMAIN m) \cup {k} |-> IF x = k THEN v ELSE m[x]]

(***************************************************************************)
(* The serialization registry: Serialize(message, serializerID) returns    *)
(* the bytes, the type name and an error.                                  *)
(***************************************************************************)
Serialize(message, serializerID) ==
    IF message = "bad"
    THEN [bytes |-> Nil, typeName |-> "", err |-> [error |-> "no serializer"]]
    ELSE [bytes |-> <<serializerID, message>>,
          typeName |-> "remote." \o message,
          err |-> Nil]

(***************************************************************************)
(* addToLookup, addToPidLookup                                             *)
(***************************************************************************)
\* Faulty variant of addToLookup: a new name is not appended (line 214).
addToLookupNoAppend(m, name, a) ==
    LET max == Cardinality(DOMAIN m) IN
    IF ~ MapHas(m, name)
    THEN [id |-> max, a |-> a, m |-> MapPut(m, name, max)]
    ELSE [id |-> m[name], a |-> a, m |-> m]

\* Faulty variant of addToLookup: a new name is put in front of the list.
addToLookupPrepend(m, name, a) ==
    LET max == Cardinality(DOMAIN m) IN
    IF ~ MapHas(m, name)
    THEN [id |-> max, a |-> <<name>> \o a, m |-> MapPut(m, name, max)]
    ELSE [id |-> m[name], a |-> a, m |-> m]

\* addToLookup (lines 208-217)
addToLookup(m, name, a) ==
    LET max == Cardinality(DOMAIN m) IN
    IF ~ MapHas(m, name)
    THEN [id |-> max, a |-> Append(a, name), m |-> MapPut(m, name, max)]
    ELSE [id |-> m[name], a |-> a, m |-> m]

\* key := pid.Address + "/" + pid.Id
PidKey(pid) == pid.Address \o "/" \o pid.Id

\* c := proto.Clone(pid); c.RequestId = 0
CloneStripped(pid) == [pid EXCEPT !.RequestId = 0]

\* Faulty variant of addToPidLookup: returns id instead of id + 1 (line 234).
addToPidLookupZeroBased(m, pid, arr) ==
    IF pid = Nil
    THEN [id |-> 0, a |-> arr, m |-> m]
    ELSE LET max == Cardinality(DOMAIN m)
             key == PidKey(pid)
         IN  IF ~ MapHas(m, key)
             THEN [id |-> max,
                   a |-> Append(arr, CloneStripped(pid)),
                   m |-> MapPut(m, key, max)]
             ELSE [id |-> m[key], a |-> arr, m |-> m]

\* Faulty variant of addToPidLookup: stores pid itself, RequestId included
\* (lines 228-229).
addToPidLookupKeepRequestId(m, pid, arr) ==
    IF pid = Nil
    THEN [id |-> 0, a |-> arr, m |-> m]
    ELSE LET max == Cardinality(DOMAIN m)
             key == PidKey(pid)
         IN  IF ~ MapHas(m, key)
             THEN [id |-> max + 1,
                   a |-> Append(arr, pid),
                   m |-> MapPut(m, key, max)]
             ELSE [id |-> m[key] + 1, a |-> arr, m |-> m]

addToPidLookup(m, pid, arr) ==
    IF pid = Nil
    THEN [id |-> 0, a |-> arr, m |-> m]
    ELSE LET max == Cardinality(DOMAIN m)
             key == PidKey(pid)
         IN  IF ~ MapHas(m, key)
             THEN [id |-> max + 1,
                   a |-> Append(arr, CloneStripped(pid)),
                   m |-> MapPut(m, key, max)]
             ELSE [id |-> m[key] + 1, a |-> arr, m |-> m]

(***************************************************************************)
(* sendEnvelopes: the loop over msg                                        *)
(***************************************************************************)
\* rd.header == nil || rd.header.Length() == 0 ? nil : &MessageHeader{ToMap()}
\* A header is Nil or a map from keys to values.
MakeHeader(header) ==
    IF header = Nil \/ Cardinality(DOMAIN header) = 0
    THEN Nil
    ELSE [HeaderData |-> header]

\* targetRequestID / senderRequestID
RequestIdOf(pid) == IF pid # Nil THEN pid.RequestId ELSE 0

\* &MessageEnvelope{...}
MakeEnvelope(header, bytes, senderID, targetID, typeID, serializerID, targetRequestID, senderRequestID) ==
    [MessageHeader |-> header,
     MessageData |-> bytes,
     Sender |-> senderID,
     Target |-> targetID,
     TypeId |-> typeID,
     SerializerId |-> serializerID,
     TargetRequestId |-> targetRequestID,
     SenderRequestId |-> senderRequestID]

\* Faulty variant of StoreEnvelope: fills the list from its end.
StoreEnvelopeReversed(envelopes, i, e) ==
    [envelopes EXCEPT ![Len(envelopes) + 1 - i] = e]

\* envelopes[i] = e
StoreEnvelope(envelopes, i, e) == [envelopes EXCEPT ![i] = e]

\* The locals of sendEnvelopes before the loop.
LoopInit(msg) ==
    [envelopes |-> [j \in 1..Len(msg) |-> Nil],
     typeNames |-> EmptyMap, typeNamesArr |-> <<>>,
     targetNames |-> EmptyMap, targetNamesArr |-> <<>>,
     senderNames |-> EmptyMap, senderNamesArr |-> <<>>]

\* One iteration of the loop body for a *remoteDeliver whose payload
\* serialized without error.
LoopBody(l, i, rd, ser, serializerID) ==
    LET ty == addToLookup(l.typeNames, ser.typeName, l.typeNamesArr)
        tg == addToPidLookup(l.targetNames, rd.target, l.targetNamesArr)
        sd == addToPidLookup(l.senderNames, rd.sender, l.senderNamesArr)
        e  == MakeEnvelope(MakeHeader(rd.header), ser.bytes, sd.id, tg.id,
                           ty.id, serializerID,
                           RequestIdOf(rd.target), RequestIdOf(rd.sender))
    IN  [envelopes |-> StoreEnvelope(l.envelopes, i, e),
         typeNames |-> ty.m, typeNamesArr |-> ty.a,
         targetNames |-> tg.m, targetNamesArr |-> tg.a,
         senderNames |-> sd.m, senderNamesArr |-> sd.a]

\* Faulty variant of SerializeFailed: the error is dropped.
SerializeFailedIgnored(ser) == FALSE

\* if err != nil (line 162)
SerializeFailed(ser) == ser.err # Nil

\* The loop from element i on.  The result is what the handler does next:
\*   "stop"  - ctx.Stop(ctx.Self()) and return
\*   "panic" - panic(err) of Serialize, or the nil dereference of rd
\*   "send"  - state.stream.Send of the MessageBatch
RECURSIVE Loop(_, _, _)
Loop(msg, i, l) ==
    IF i > Len(msg)
    THEN [outcome |-> "send",
          batch |-> [TypeNames |-> l.typeNamesArr,
                     Targets |-> l.targetNamesArr,
                     Senders |-> l.senderNamesArr,
                     Envelopes |-> l.envelopes]]
    ELSE LET tmp == msg[i] IN
         IF tmp.type = "EndpointTerminatedEvent"
         THEN [outcome |-> "stop", batch |-> Nil]
         ELSE IF tmp.type # "remoteDeliver"
         THEN [outcome |-> "panic", batch |-> Nil]
         ELSE LET ser == Serialize(tmp.message, 0) IN
              IF SerializeFailed(ser)
              THEN [outcome |-> "panic", batch |-> Nil]
              ELSE Loop(msg, i + 1, LoopBody(l, i, tmp, ser, 0))

Assemble(msg) == Loop(msg, 1, LoopInit(msg))

(***************************************************************************)
(* Inputs of the assembly.                                                 *)
(***************************************************************************)
RemoteDeliver(header, message, target, sender) ==
    [type |-> "remoteDeliver", header |-> header, message |-> message,
     target |-> target, sender |-> sender]

\* &EndpointTerminatedEvent{Address: address}
Terminated(address) == [type |-> "EndpointTerminatedEvent", Address |-> address]

\* &EndpointConnectedEvent{Address: address}
Connected(address) == [type |-> "EndpointConnectedEvent", Address |-> address]

SeqsUpTo(S, n) == UNION {[1..k -> S] : k \in 0..n}

\* Two references of one actor with different request ids, a reference of
\* another actor whose Address + "/" + Id is the same string, and a
\* reference unrelated to them.
AsmPIDs ==
    {PID("a", "b/c", 5), PID("a", "b/c", 9), PID("a/b", "c", 5),
     PID("n", "x", 7)}

\* <<message, header>>: no header, an empty header, a header with an entry.
AsmPayloads ==
    {<<"ping", Nil>>, <<"ping", EmptyMap>>, <<"pong", [k |-> "v"]>>}

AsmDelivers ==
    {RemoteDeliver(p[2], p[1], t, s) :
        p \in AsmPayloads, t \in AsmPIDs \cup {Nil}, s \in AsmPIDs \cup {Nil}}

AsmBatches == SeqsUpTo(AsmDelivers, MaxLen)

(***************************************************************************)
(* The endpoint: its address, the local system, the messages it receives.  *)
(***************************************************************************)
\* state.address
Address == "remote:1"
OtherAddress == "remote:2"

\* state.remote.actorSystem.ID, state.remote.actorSystem.Address()
SystemID == "sys-1"
LocalAddress == "local:1"

Streams == 1..(MaxRestarts + 1)

\* The elements of the batches the runtime delivers.
OkDeliver == RemoteDeliver(Nil, "ping", PID(Address, "x", 7), Nil)
BadDeliver == RemoteDeliver(Nil, "bad", PID(Address, "x", 7), Nil)

Batches == SeqsUpTo({OkDeliver, BadDeliver, Terminated(Address)}, MaxLen)

\* The messages other than lifecycle signals and batches.
OtherMessages ==
    {Terminated(Address), Terminated(OtherAddress),
     [type |-> "SystemMessage"], [type |-> "unknown"]}

\* How far the connect sequence of initializeInternal gets.
ConnectOutcomes ==
    {"dialErr", "streamErr", "sendErr", "recvErr", "wrongVariant", "accepted"}

VARIABLES
    input,     \* SpecAsm: the batch handed to the assembly
    output,    \* SpecAsm: what the assembly made of it
    phase,     \* where the actor is in its life
    conn,      \* state.conn: 0 is nil, else the number of the channel
    stream,    \* state.stream: 0 is nil, else the number of the stream
    epoch,     \* channels dialed so far
    restarts,  \* restarts granted so far
    wire,      \* per stream: the messages sent on it, in order
    attempt,   \* per stream: how far the connect sequence on it got
    monitor,   \* per stream: the goroutine of initializeInternal
    inbound,   \* per stream: what a Recv finds
    nread,     \* per stream: messages the monitor has read
    events,    \* per connection: what it published on the EventStream, in order
    stash,     \* ctx.Stash: the stashed messages
    cur,       \* ctx.Message() of the last call of Receive
    calls      \* the calls that call of Receive made, in order

vars ==
    <<input, output, phase, conn, stream, epoch, restarts, wire, attempt,
      monitor, inbound, nread, events, stash, cur, calls>>

endpointVars ==
    <<phase, conn, stream, epoch, restarts, wire, attempt, monitor,
      inbound, nread, events, stash, cur, calls>>

\* endpointWriterProducer: a writer with no conn and no stream; nothing
\* was dialed, sent or published yet.
InitEndpoint ==
    /\ phase = "idle"
    /\ conn = 0
    /\ stream = 0
    /\ epoch = 0
    /\ restarts = 0
    /\ wire = [s \in Streams |-> <<>>]
    /\ attempt = [s \in Streams |-> "none"]
    /\ monitor = [s \in Streams |-> "none"]
    /\ inbound = [s \in Streams |-> "open"]
    /\ nread = [s \in Streams |-> 0]
    /\ events = [s \in Streams |-> <<>>]
    /\ stash = <<>>
    /\ cur = [type |-> "none"]
    /\ calls = <<>>

(***************************************************************************)
(* The assembly alone, on every batch of AsmBatches.                       *)
(***************************************************************************)
InitAsm == input \in AsmBatches /\ output = Nil /\ InitEndpoint

RunAssemble ==
    /\ output = Nil
    /\ output' = Assemble(input)
    /\ UNCHANGED <<input, endpointVars>>

NextAsm == RunAssemble

SpecAsm == InitAsm /\ [][NextAsm]_vars

(***************************************************************************)
(* initialize, initializeInternal                                          *)
(***************************************************************************)
Call(op, arg) == [op |-> op, arg |-> arg]

\* What the log of a stream keeps of a message sent on it: the
\* ConnectRequest as it is, of a MessageBatch its type.
Frame(m) == IF m.type = "MessageBatch" THEN [type |-> m.type] ELSE m

\* The handler ended in a panic: the actor failed and its mailbox is
\* suspended until the supervisor decides.
Panics(cs) == cs # <<>> /\ cs[Len(cs)].op = "panic"

\* grpc.Dial returned a connection: state.conn = conn (line 52)
ConnStored(outcome) == outcome # "dialErr"

\* c.Receive returned a stream: state.stream = stream (line 59)
StreamStored(outcome) == outcome \notin {"dialErr", "streamErr"}

\* stream.Send of the ConnectRequest succeeded (lines 61-76)
RequestSent(outcome) == outcome \in {"recvErr", "wrongVariant", "accepted"}

\* Faulty variant of ConnectRequest: the local system is left out.
ConnectRequestNoIdentity ==
    [type |-> "ConnectRequest", SystemId |-> "", Address |-> ""]

\* The ConnectRequest of lines 61-72
ConnectRequest ==
    [type |-> "ConnectRequest", SystemId |-> SystemID, Address |-> LocalAddress]

\* stream.Recv of line 78 and the type switch of lines 84-90
ResponseOf(outcome) ==
    CASE outcome = "accepted" -> "accepted"
      [] outcome = "wrongVariant" -> "wrong"
      [] outcome = "recvErr" -> "err"
      [] OTHER -> "none"

\* What the handshake of stream s read.
Response(s) == ResponseOf(attempt[s])

\* Faulty variant of ConnectFails: without the type switch of lines 84-90.
ConnectFailsUnchecked(outcome) == outcome \notin {"accepted", "wrongVariant"}

\* initializeInternal returns an error (lines 50, 57, 75, 81, 89)
ConnectFails(outcome) == outcome # "accepted"

\* Faulty variant of InitializeFailure: without the panic of line 42.
InitializeFailureReturns(outcome) ==
    <<Call("initializeInternal", outcome), Call("Sleep", "2s")>>

\* The calls of initialize when initializeInternal failed (lines 37-43)
InitializeFailure(outcome) ==
    <<Call("initializeInternal", outcome), Call("Sleep", "2s"),
      Call("panic", outcome)>>

\* Receive(*actor.Started): initialize, up to the go statement of line 92
\* or to the panic of line 42.
ReceiveStarted ==
    /\ phase = "idle"
    /\ epoch < MaxRestarts + 1
    /\ \E outcome \in ConnectOutcomes :
         LET s == epoch + 1 IN
         /\ epoch' = s
         /\ conn' = IF ConnStored(outcome) THEN s ELSE conn
         /\ stream' = IF StreamStored(outcome) THEN s ELSE stream
         /\ wire' = IF RequestSent(outcome)
                    THEN [wire EXCEPT ![s] = Append(@, Frame(ConnectRequest))]
                    ELSE wire
         /\ attempt' = [attempt EXCEPT ![s] = outcome]
         /\ inbound' = IF outcome = "recvErr"
                       THEN [inbound EXCEPT ![s] = "err"]
                       ELSE inbound
         /\ IF ConnectFails(outcome)
            THEN /\ phase' = IF Panics(InitializeFailure(outcome))
                             THEN "faulted" ELSE "ready"
                 /\ calls' = InitializeFailure(outcome)
                 /\ UNCHANGED monitor
            ELSE /\ phase' = "connecting"
                 /\ calls' = <<Call("go", s)>>
                 /\ monitor' = [monitor EXCEPT ![s] = "running"]
    /\ cur' = [type |-> "Started"]
    /\ UNCHANGED <<input, output, restarts, nread, events,
                   stash>>

\* Faulty variant of ConnectedEvents: the event is published twice.
ConnectedEventsTwice == <<Connected(Address), Connected(Address)>>

\* The events initializeInternal publishes on success (lines 116-117)
ConnectedEvents == <<Connected(Address)>>

\* initializeInternal from line 116 on: publish the Connected event, and
\* initialize returns.
PublishConnected ==
    /\ phase = "connecting"
    /\ events' = [events EXCEPT ![stream] = @ \o ConnectedEvents]
    /\ calls' = calls \o [k \in 1..Len(ConnectedEvents) |->
                             Call("Publish", ConnectedEvents[k])]
    /\ phase' = "ready"
    /\ UNCHANGED <<input, output, conn, stream, epoch, restarts, wire,
                   attempt, monitor, inbound, nread, stash, cur>>

(***************************************************************************)
(* The goroutine of initializeInternal (lines 92-114)                      *)
(***************************************************************************)
\* What stream.Recv can return on stream s.
RECURSIVE Sum(_, _)
Sum(f, S) ==
    IF S = {} THEN 0
    ELSE LET x == CHOOSE y \in S : TRUE IN f[x] + Sum(f, S \ {x})

RecvResults(s) ==
    CASE inbound[s] = "eof" -> {"eof"}
      [] inbound[s] = "err" -> {"err"}
      [] OTHER -> {"eof", "err"} \cup
                  (IF Sum(nread, Streams) < MaxInbound THEN {"msg"} ELSE {})

\* Faulty variant of MonitorPublishes: io.EOF publishes too.
MonitorPublishesOnEOF(r) == r \in {"err", "msg", "eof"}

\* Faulty variant of MonitorPublishes: a message read publishes nothing.
MonitorPublishesErrOnly(r) == r = "err"

\* The case the switch takes publishes a Terminated event.
MonitorPublishes(r) == r \in {"err", "msg"}

\* Faulty variant of MonitorReturns: no case of the switch returns.
MonitorReturnsNever(r) == FALSE

\* The goroutine ends after this Recv.
MonitorReturns(r) == r = "err"

MonitorRecv(s) ==
    /\ monitor[s] = "running"
    /\ \E r \in RecvResults(s) :
         /\ inbound' = IF r = "msg" THEN inbound
                       ELSE [inbound EXCEPT ![s] = r]
         /\ nread' = IF r = "msg" THEN [nread EXCEPT ![s] = @ + 1] ELSE nread
         /\ IF MonitorPublishes(r)
            THEN events' = [events EXCEPT ![s] = Append(@, Terminated(Address))]
            ELSE UNCHANGED events
         /\ monitor' = IF MonitorReturns(r)
                       THEN [monitor EXCEPT ![s] = "exited"]
                       ELSE monitor
    /\ UNCHANGED <<input, output, phase, conn, stream, epoch, restarts, wire,
                   attempt, stash, cur, calls>>

(***************************************************************************)
(* closeClientConn, and Receive of Stopped and Restarting                  *)
(***************************************************************************)
\* Faulty variant of closeClientConn: an error of CloseSend ends it.
closeClientConnReturnsOnError(sendErr, closeErr) ==
    IF stream # 0 /\ sendErr
    THEN <<Call("CloseSend", stream), Call("Error", "stream")>>
    ELSE (IF stream # 0 THEN <<Call("CloseSend", stream)>> ELSE <<>>) \o
         (IF conn # 0 THEN <<Call("Close", conn)>> ELSE <<>>) \o
         (IF conn # 0 /\ closeErr THEN <<Call("Error", "conn")>> ELSE <<>>)

\* The calls of closeClientConn (lines 257-270); sendErr and closeErr tell
\* whether CloseSend and Close return an error, which is logged.
closeClientConn(sendErr, closeErr) ==
    (IF stream # 0 THEN <<Call("CloseSend", stream)>> ELSE <<>>) \o
    (IF stream # 0 /\ sendErr THEN <<Call("Error", "stream")>> ELSE <<>>) \o
    (IF conn # 0 THEN <<Call("Close", conn)>> ELSE <<>>) \o
    (IF conn # 0 /\ closeErr THEN <<Call("Error", "conn")>> ELSE <<>>)

\* The channel of the writer was closed by these calls.
Closed(cs) == \E k \in 1..Len(cs) : cs[k].op = "Close"

\* A closed channel fails the pending and later Recv of its stream.
InboundAfterClose(cs) ==
    IF Closed(cs) /\ conn # 0 /\ inbound[conn] = "open"
    THEN [inbound EXCEPT ![conn] = "err"]
    ELSE inbound

\* Receive(*actor.Stopped)
ReceiveStopped ==
    /\ phase = "stopping"
    /\ cur' = [type |-> "Stopped"]
    /\ \E sendErr, closeErr \in BOOLEAN :
         calls' = closeClientConn(sendErr, closeErr)
    /\ inbound' = InboundAfterClose(calls')
    /\ phase' = "stopped"
    /\ UNCHANGED <<input, output, conn, stream, epoch, restarts, wire,
                   attempt, monitor, nread, events, stash>>

\* Receive(*actor.Restarting), then the producer makes the next writer.
ReceiveRestarting ==
    /\ phase = "restarting"
    /\ cur' = [type |-> "Restarting"]
    /\ \E sendErr, closeErr \in BOOLEAN :
         calls' = closeClientConn(sendErr, closeErr)
    /\ inbound' = InboundAfterClose(calls')
    /\ conn' = 0
    /\ stream' = 0
    /\ phase' = "idle"
    /\ UNCHANGED <<input, output, epoch, restarts, wire, attempt, monitor,
                   nread, events, stash>>

(***************************************************************************)
(* sendEnvelopes, and Receive of the other messages                        *)
(***************************************************************************)
\* The MessageBatch frame of lines 191-200
MessageBatch(batch) == [type |-> "MessageBatch", MessageBatch |-> batch]

\* Faulty variant of SendFailure: without the ctx.Stash of line 202.
SendFailureNoStash(m) == <<Call("panic", "restart it")>>

\* The calls after state.stream.Send failed (lines 201-205)
SendFailure(m) == <<Call("Stash", m), Call("panic", "restart it")>>

\* sendEnvelopes(m, ctx) with the stash as it is left of the message.
sendEnvelopes(m, rest) ==
    LET r == Assemble(m) IN
    /\ cur' = [type |-> "[]interface{}", elems |-> m]
    /\ CASE r.outcome = "stop" ->
              /\ calls' = <<Call("Stop", "self")>>
              /\ phase' = "stopping"
              /\ stash' = rest
              /\ UNCHANGED wire
         [] r.outcome = "panic" ->
              /\ calls' = <<Call("panic", "err")>>
              /\ phase' = "faulted"
              /\ stash' = rest
              /\ UNCHANGED wire
         [] r.outcome = "send" /\ stream = 0 ->
              /\ calls' = <<Call("panic", "nil stream")>>
              /\ phase' = "faulted"
              /\ stash' = rest
              /\ UNCHANGED wire
         [] OTHER ->
              \E ok \in BOOLEAN :
                IF ok
                THEN /\ calls' = <<Call("Send", MessageBatch(r.batch))>>
                     /\ wire' = [wire EXCEPT
                                   ![stream] = Append(@, Frame(MessageBatch(r.batch)))]
                     /\ stash' = rest
                     /\ UNCHANGED phase
                ELSE /\ calls' = <<Call("SendErr", MessageBatch(r.batch))>>
                                   \o SendFailure(m)
                     /\ stash' = IF \E c \in 1..Len(SendFailure(m)) :
                                       SendFailure(m)[c].op = "Stash"
                                 THEN Append(rest, m) ELSE rest
                     /\ phase' = IF Panics(SendFailure(m))
                                 THEN "faulted" ELSE phase
                     /\ UNCHANGED wire
    /\ UNCHANGED <<input, output, conn, stream, epoch, restarts, attempt,
                   monitor, inbound, nread, events>>

BatchesSent(s) ==
    Cardinality({i \in 1..Len(wire[s]) : wire[s][i].type = "MessageBatch"})

\* Receive([]interface{})
ReceiveBatch ==
    /\ phase = "ready"
    /\ stash = <<>>
    /\ Sum([s \in Streams |-> BatchesSent(s)], Streams) < MaxSends
    /\ \E m \in Batches : sendEnvelopes(m, stash)

\* After a restart the runtime hands the stashed message to Receive again.
Unstash ==
    /\ phase = "ready"
    /\ stash # <<>>
    /\ sendEnvelopes(stash[Len(stash)], SubSeq(stash, 1, Len(stash) - 1))

\* Receive of *EndpointTerminatedEvent (lines 245-247), of a system or
\* auto-receive message (250-251) and of anything else (252-253).
ReceiveOther ==
    /\ phase = "ready"
    /\ stash = <<>>
    /\ \E m \in OtherMessages :
         /\ cur' = m
         /\ IF m.type = "EndpointTerminatedEvent"
            THEN /\ calls' = <<Call("Stop", "self")>>
                 /\ phase' = "stopping"
            ELSE /\ calls' = <<>>
                 /\ UNCHANGED phase
    /\ UNCHANGED <<input, output, conn, stream, epoch, restarts, wire,
                   attempt, monitor, inbound, nread, events, stash>>

(***************************************************************************)
(* The runtime: the supervisor of a failed writer, and a stop from outside *)
(***************************************************************************)
SupervisorRestart ==
    /\ phase = "faulted"
    /\ restarts < MaxRestarts
    /\ restarts' = restarts + 1
    /\ phase' = "restarting"
    /\ UNCHANGED <<input, output, conn, stream, epoch, wire, attempt,
                   monitor, inbound, nread, events, stash,
                   cur, calls>>

StopRequested ==
    /\ phase \in {"ready", "faulted"}
    /\ phase' = "stopping"
    /\ UNCHANGED <<input, output, conn, stream, epoch, restarts, wire,
                   attempt, monitor, inbound, nread, events, stash, cur, calls>>

Init == input = <<>> /\ output = Nil /\ InitEndpoint

Next ==
    \/ ReceiveStarted
    \/ PublishConnected
    \/ \E s \in Streams : MonitorRecv(s)
    \/ ReceiveBatch
    \/ Unstash
    \/ ReceiveOther
    \/ ReceiveStopped
    \/ ReceiveRestarting
    \/ SupervisorRestart
    \/ StopRequested

Spec == Init /\ [][Next]_vars

(***************************************************************************)
(* Properties of the assembled batch (SpecAsm).                            *)
(***************************************************************************)
Assembled == output # Nil /\ output.outcome = "send"

Envelopes == output.batch.Envelopes
Targets == output.batch.Targets
Senders == output.batch.Senders
TypeNames == output.batch.TypeNames

Range(f) == {f[x] : x \in DOMAIN f}

\* The header an envelope is to carry for a delivery.
HeaderOf(d) ==
    IF d.header # Nil /\ DOMAIN d.header # {}
    THEN [HeaderData |-> d.header]
    ELSE Nil

\* Index k designates, in the table, a reference the lookup holds equal to
\* pid (0, an absent one).
Designates(table, k, pid) ==
    IF pid = Nil THEN k = 0
    ELSE k \in 1..Len(table) /\ PidKey(table[k]) = PidKey(pid)

\* C2: the transmitted envelope list is as long as the input list and its
\* i-th envelope carries the payload and the header of the i-th delivery
\* and designates that delivery's target and sender.
C2_OrderPreserved ==
    output # Nil =>
      /\ output.outcome = "send"
      /\ Len(Envelopes) = Len(input)
      /\ \A i \in 1..Len(input) :
           /\ Envelopes[i] # Nil
           /\ Envelopes[i].MessageData = Serialize(input[i].message, 0).bytes
           /\ Envelopes[i].MessageHeader = HeaderOf(input[i])
           /\ Designates(Targets, Envelopes[i].Target, input[i].target)
           /\ Designates(Senders, Envelopes[i].Sender, input[i].sender)

\* A batch of two deliveries that differ in payload, header, target and
\* sender was assembled.
C2_Witness ==
    /\ Assembled
    /\ Len(input) = 2
    /\ input[1].message # input[2].message
    /\ input[1].header # input[2].header
    /\ input[1].target # Nil /\ input[2].target # Nil
    /\ PidKey(input[1].target) # PidKey(input[2].target)
    /\ input[1].sender = Nil /\ input[2].sender # Nil

SameActor(p, q) == p.Address = q.Address /\ p.Id = q.Id

\* The references of a table that are the actor of pid.
Occurrences(table, pid) == {k \in 1..Len(table) : SameActor(table[k], pid)}

\* C3: each distinct (address, local-id) pair occurring as a target (resp.
\* sender) appears exactly once in the target (resp. sender) table, and a
\* nonzero index k of an envelope designates, at table position k-1
\* (counted from 0), an entry with the address and the local id of that
\* delivery's own target (resp. sender).
C3_TableDedup ==
    Assembled =>
      \A i \in 1..Len(input) :
        /\ input[i].target # Nil =>
             Cardinality(Occurrences(Targets, input[i].target)) = 1
        /\ input[i].sender # Nil =>
             Cardinality(Occurrences(Senders, input[i].sender)) = 1
        /\ Envelopes[i].Target # 0 =>
             /\ Envelopes[i].Target \in 1..Len(Targets)
             /\ SameActor(Targets[Envelopes[i].Target], input[i].target)
        /\ Envelopes[i].Sender # 0 =>
             /\ Envelopes[i].Sender \in 1..Len(Senders)
             /\ SameActor(Senders[Envelopes[i].Sender], input[i].sender)

\* C4: an envelope's Sender (resp. Target) is 0 exactly when the delivery
\* has no sender (resp. target), a reference gets an index of at least 1,
\* and the sender table of a batch without any sender is empty.
C4_Sentinel ==
    Assembled =>
      /\ \A i \in 1..Len(input) :
           /\ Envelopes[i].Sender = 0 <=> input[i].sender = Nil
           /\ Envelopes[i].Target = 0 <=> input[i].target = Nil
           /\ input[i].sender # Nil => Envelopes[i].Sender >= 1
           /\ input[i].target # Nil => Envelopes[i].Target >= 1
      /\ (\A i \in 1..Len(input) : input[i].sender = Nil) => Senders = <<>>

\* A batch with a delivery without sender and a delivery with one, and a
\* batch none of whose deliveries has a sender, are distinguished by the
\* table: here the first.
C4_Witness ==
    /\ Assembled
    /\ Len(input) = 2
    /\ input[1].sender = Nil
    /\ input[2].sender # Nil
    /\ input[1].target # Nil
    /\ input[2].target = Nil
    /\ Envelopes[1].Sender = 0
    /\ Envelopes[2].Sender = 1

\* C5: every entry of the target and sender tables has request id 0, two
\* deliveries to the same (address, local-id) target share one table entry
\* and one index whatever their request ids, and an envelope's
\* TargetRequestId / SenderRequestId is the request id of that delivery's
\* own reference (0 for an absent one).
C5_RequestIdIsolation ==
    Assembled =>
      /\ \A k \in 1..Len(Targets) : Targets[k].RequestId = 0
      /\ \A k \in 1..Len(Senders) : Senders[k].RequestId = 0
      /\ \A i, j \in 1..Len(input) :
           (/\ input[i].target # Nil
            /\ input[j].target # Nil
            /\ SameActor(input[i].target, input[j].target))
           => /\ Envelopes[i].Target = Envelopes[j].Target
              /\ Envelopes[i].Target \in 1..Len(Targets)
              /\ Cardinality(Occurrences(Targets, input[i].target)) <= 1
      /\ \A i \in 1..Len(input) :
           /\ Envelopes[i].TargetRequestId =
                (IF input[i].target = Nil THEN 0
                 ELSE input[i].target.RequestId)
           /\ Envelopes[i].SenderRequestId =
                (IF input[i].sender = Nil THEN 0
                 ELSE input[i].sender.RequestId)

\* Two deliveries to one actor with different request ids were assembled.
C5_Witness ==
    /\ Assembled
    /\ Len(input) = 2
    /\ input[1].target # Nil /\ input[2].target # Nil
    /\ SameActor(input[1].target, input[2].target)
    /\ input[1].target.RequestId # input[2].target.RequestId
    /\ Len(Targets) = 1
    /\ Envelopes[1].TargetRequestId # Envelopes[2].TargetRequestId

\* C6: every TypeId is a position of the type table counted from 0, every
\* Target / Sender is between 0 and the length of its table, and the tables
\* hold only values of the deliveries of this batch.
C6_IndexValidity ==
    Assembled =>
      /\ \A i \in 1..Len(Envelopes) :
           /\ 0 <= Envelopes[i].TypeId
           /\ Envelopes[i].TypeId < Len(TypeNames)
           /\ 0 <= Envelopes[i].Target
           /\ Envelopes[i].Target <= Len(Targets)
           /\ 0 <= Envelopes[i].Sender
           /\ Envelopes[i].Sender <= Len(Senders)
      /\ \A k \in 1..Len(TypeNames) :
           \E i \in 1..Len(input) :
             TypeNames[k] = Serialize(input[i].message, 0).typeName
      /\ \A k \in 1..Len(Targets) :
           \E i \in 1..Len(input) :
             input[i].target # Nil /\ SameActor(Targets[k], input[i].target)
      /\ \A k \in 1..Len(Senders) :
           \E i \in 1..Len(input) :
             input[i].sender # Nil /\ SameActor(Senders[k], input[i].sender)

\* A batch with two type names, two targets and two senders: the highest
\* indices are in use.
C6_Witness ==
    /\ Assembled
    /\ Len(TypeNames) = 2
    /\ Len(Targets) = 2
    /\ Len(Senders) = 2
    /\ Envelopes[2].TypeId = 1
    /\ Envelopes[2].Target = 2
    /\ Envelopes[2].Sender = 2

(***************************************************************************)
(* Properties of the endpoint (Spec).                                      *)
(***************************************************************************)
Ops(cs) == [k \in 1..Len(cs) |-> cs[k].op]

IsBatch(m) == m.type = "[]interface{}"

\* C1: a MessageBatch is on the wire of a stream only after the
\* ConnectRequest was sent on that stream and the ConnectResponse was read
\* from it; a stream whose handshake read an error or another message
\* carries no MessageBatch, whatever the number of restarts.
C1_HandshakeGating ==
    \A s \in Streams :
      \A i \in 1..Len(wire[s]) :
        wire[s][i].type = "MessageBatch" =>
          /\ Response(s) = "accepted"
          /\ \E j \in 1..(i - 1) : wire[s][j].type = "ConnectRequest"

\* After a handshake that read no ConnectResponse and a restart, a batch
\* was sent on the stream of the next writer.
C1_Witness ==
    \E s, t \in Streams :
      /\ s < t
      /\ Response(s) \in {"wrong", "err"}
      /\ Response(t) = "accepted"
      /\ \E i \in 1..Len(wire[t]) : wire[t][i].type = "MessageBatch"

\* C7: handling a batch that holds a Terminated event at any position,
\* whatever its other elements, requests the writer's own stop and sends
\* nothing.
C7_TerminationPrecedence ==
    (/\ IsBatch(cur)
     /\ \E i \in 1..Len(cur.elems) :
          cur.elems[i].type = "EndpointTerminatedEvent")
    => Ops(calls) = <<"Stop">>

\* C8: when the connect sequence fails at any step, initializeInternal
\* returns the error, no Connected event is published, no monitor is
\* started, and the writer panics instead of becoming ready.
C8_ConnectFailure ==
    \A s \in Streams :
      attempt[s] \in ConnectOutcomes \ {"accepted"} =>
        /\ events[s] = <<>>
        /\ monitor[s] = "none"
        /\ ~ \E i \in 1..Len(wire[s]) : wire[s][i].type = "MessageBatch"
        /\ s = epoch => phase \notin {"connecting", "ready"}
        /\ (s = epoch /\ cur.type = "Started") =>
             /\ calls[1] = Call("initializeInternal", attempt[s])
             /\ Panics(calls)

\* Every way of failing has happened, one per writer or more, the last one
\* being a response of another variant.
C8_Witness ==
    /\ epoch >= 2
    /\ attempt[epoch] = "wrongVariant"
    /\ attempt[epoch - 1] \in {"dialErr", "streamErr", "sendErr", "recvErr"}
    /\ phase = "faulted"
    /\ cur.type = "Started"

TerminatedBy(s) ==
    Cardinality({k \in 1..Len(events[s]) :
                   events[s][k].type = "EndpointTerminatedEvent"})

\* The monitor of stream s has read the end of the stream, and nothing
\* before it.
PeerClosed(s) == attempt[s] = "accepted" /\ inbound[s] = "eof" /\ nread[s] = 0

StashRest == IF stash = <<>> THEN <<>> ELSE SubSeq(stash, 1, Len(stash) - 1)

\* C10: when the Send of an assembled batch fails, the writer stashes
\* exactly the batch it was handling and then panics, without a second Send
\* and without sending anything; when the Send succeeds it stashes nothing
\* and stays ready.
C10_SendFailure ==
    [][(ReceiveBatch \/ Unstash) =>
         /\ "SendErr" \in Range(Ops(calls')) =>
              /\ Ops(calls') = <<"SendErr", "Stash", "panic">>
              /\ calls'[2].arg = cur'.elems
              /\ stash' = Append(StashRest, cur'.elems)
              /\ phase' = "faulted"
              /\ wire' = wire
         /\ "Send" \in Range(Ops(calls')) =>
              /\ Ops(calls') = <<"Send">>
              /\ stash' = StashRest
              /\ phase' = "ready"
              /\ wire' = [wire EXCEPT
                            ![stream] = Append(@, [type |-> "MessageBatch"])]
      ]_vars

\* The Send of a batch of two deliveries failed: the batch is stashed and
\* the writer has failed.
C10_Witness ==
    /\ phase = "faulted"
    /\ IsBatch(cur)
    /\ Len(cur.elems) = 2
    /\ Ops(calls) = <<"SendErr", "Stash", "panic">>
    /\ stash = <<cur.elems>>

(***************************************************************************)
(* Failure of the serialization                                            *)
(***************************************************************************)
\* The loop over batch m reaches element i, a delivery, and the
\* serialization of its payload fails.
SerializeFailsAt(m, i) ==
    /\ m[i].type = "remoteDeliver"
    /\ Serialize(m[i].message, 0).err # Nil
    /\ \A j \in 1..(i - 1) :
         /\ m[j].type = "remoteDeliver"
         /\ Serialize(m[j].message, 0).err = Nil

\* C11: when the serialization of the payload of a delivery of a batch
\* fails, the writer panics and nothing of the batch is sent, the envelopes
\* of the deliveries before the failing one included.
C11_SerializeFailureAborts ==
    [][(ReceiveBatch \/ Unstash) =>
         ((\E i \in 1..Len(cur'.elems) : SerializeFailsAt(cur'.elems, i)) =>
            /\ Ops(calls') = <<"panic">>
            /\ phase' = "faulted"
            /\ wire' = wire)
      ]_vars

\* The second delivery of a batch failed to serialize: the writer has
\* failed and its stream carries the ConnectRequest only.
C11_Witness ==
    /\ IsBatch(cur)
    /\ cur.elems = <<OkDeliver, BadDeliver>>
    /\ Ops(calls) = <<"panic">>
    /\ phase = "faulted"
    /\ stream # 0
    /\ Len(wire[stream]) = 1

(***************************************************************************)
(* The events of one connection                                            *)
(***************************************************************************)
TerminatedIn(es) ==
    Cardinality({k \in 1..Len(es) : es[k].type = "EndpointTerminatedEvent"})

ConnectedBy(s) ==
    Cardinality({k \in 1..Len(events[s]) :
                   events[s][k].type = "EndpointConnectedEvent"})

\* C12 as stated: over the lifetime of one connection at most one Connected
\* event and at most one Terminated event are published for its address.
C12_OncePerTransition ==
    \A s \in Streams :
      /\ ConnectedBy(s) <= 1
      /\ TerminatedBy(s) <= 1

\* C12 as amended: over the lifetime of one connection at most one
\* Connected event is published; one Terminated event is published for
\* every inbound message the monitor has read and one more when the monitor
\* has exited on a failed read, all of them with the writer's address.
C12_OncePerTransition_Amended ==
    \A s \in Streams :
      /\ ConnectedBy(s) <= 1
      /\ TerminatedBy(s) = nread[s] + (IF monitor[s] = "exited" THEN 1 ELSE 0)
      /\ \A k \in 1..Len(events[s]) : events[s][k].Address = Address

\* One connection has published its Connected event and two Terminated
\* events: one for an inbound message and one for the failed read.
C12_Witness ==
    \E s \in Streams :
      /\ ConnectedBy(s) = 1
      /\ TerminatedBy(s) = 2
      /\ nread[s] = 1
      /\ monitor[s] = "exited"

(***************************************************************************)
(* The messages of one stream                                              *)
(***************************************************************************)
\* C13: the first message sent on a stream is the ConnectRequest with the
\* id and the address of the local system, it is sent once, every later
\* message of the stream is a MessageBatch, and a stream whose handshake
\* was accepted carries the ConnectRequest.
C13_HandshakeFirstOnce ==
    \A s \in Streams :
      /\ \A i \in 1..Len(wire[s]) :
           IF i = 1
           THEN wire[s][i] = [type |-> "ConnectRequest",
                              SystemId |-> SystemID,
                              Address |-> LocalAddress]
           ELSE wire[s][i] = [type |-> "MessageBatch"]
      /\ attempt[s] = "accepted" => Len(wire[s]) >= 1

\* The stream of a restarted writer carries the ConnectRequest and, after
\* it, a MessageBatch.
C13_Witness ==
    /\ epoch = 2
    /\ Len(wire[2]) = 2
    /\ wire[2][1].type = "ConnectRequest"
    /\ wire[2][2].type = "MessageBatch"

(***************************************************************************)
(* The monitor                                                             *)
(***************************************************************************)
\* C14: a monitor that has read the end of its stream (io.EOF) has left
\* its loop, and has published nothing for that read.
C14_MonitorExitsOnEOF ==
    \A s \in Streams :
      inbound[s] = "eof" =>
        /\ monitor[s] = "exited"
        /\ TerminatedBy(s) = nread[s]

\* C15: a Recv of the monitor that fails with an error other than io.EOF
\* publishes one Terminated event with the writer's address and ends the
\* monitor, leaving the writer as it is; a monitor that has ended reads
\* and publishes nothing more.
C15_MonitorTransportError ==
    [][\A s \in Streams :
         /\ (MonitorRecv(s) /\ inbound'[s] = "err") =>
              /\ events'[s] = Append(events[s], Terminated(Address))
              /\ monitor'[s] = "exited"
              /\ phase' = phase
              /\ calls' = calls
         /\ monitor[s] = "exited" =>
              /\ monitor'[s] = "exited"
              /\ nread'[s] = nread[s]
              /\ TerminatedIn(events'[s]) = TerminatedIn(events[s])
      ]_vars

\* The monitor of a ready writer has ended on a failed read, its first
\* one, and has published one Terminated event after the Connected event.
C15_Witness ==
    \E s \in Streams :
      /\ phase = "ready"
      /\ stream = s
      /\ monitor[s] = "exited"
      /\ inbound[s] = "err"
      /\ nread[s] = 0
      /\ events[s] = <<Connected(Address), Terminated(Address)>>

\* C16: every inbound message the monitor reads publishes one Terminated
\* event with the writer's address and leaves the monitor running, so that
\* a connection has at least as many Terminated events as messages read.
C16_MonitorInboundMessage ==
    [][\A s \in Streams :
         /\ (MonitorRecv(s) /\ nread'[s] = nread[s] + 1) =>
              /\ events'[s] = Append(events[s], Terminated(Address))
              /\ monitor'[s] = "running"
         /\ TerminatedIn(events'[s]) >= nread'[s]
      ]_vars

\* The monitor has read an inbound message, has published a Terminated
\* event for it and is reading on.
C16_Witness ==
    \E s \in Streams :
      /\ nread[s] = 1
      /\ TerminatedBy(s) = 1
      /\ monitor[s] = "running"
      /\ inbound[s] = "open"

(***************************************************************************)
(* Shutdown                                                                *)
(***************************************************************************)
\* The CloseSend and Close among the calls cs.
Closes(cs) == SelectSeq(cs, LAMBDA c : c.op \in {"CloseSend", "Close"})

\* What the writer has to close: the stream if its connect sequence opened
\* one, then the channel if it opened one.
ExpectedCloses ==
    (IF attempt[epoch] \notin {"dialErr", "streamErr"}
     THEN <<Call("CloseSend", epoch)>> ELSE <<>>) \o
    (IF attempt[epoch] # "dialErr"
     THEN <<Call("Close", epoch)>> ELSE <<>>)

\* C17: on Stopped and on Restarting, in whatever state the connect
\* sequence left the writer, the writer closes the send side of the stream
\* if one was opened and then the channel if one was opened; an error of
\* either close does not keep the other from being made and does not make
\* the writer panic.
C17_Shutdown ==
    [][(ReceiveStopped \/ ReceiveRestarting) =>
         /\ Closes(calls') = ExpectedCloses
         /\ ~ \E k \in 1..Len(calls') : calls'[k].op = "panic"
         /\ phase' \in {"stopped", "idle"}
      ]_vars

\* A writer whose connect sequence failed after the stream was opened is
\* restarted: CloseSend fails, and Close is made all the same.
C17_Witness ==
    /\ cur.type = "Restarting"
    /\ attempt[epoch] = "sendErr"
    /\ Ops(calls) = <<"CloseSend", "Error", "Close">>
    /\ phase = "idle"

\* C18: a Terminated event received as a message makes the writer request
\* its own stop when, and only when, the address of the event is the
\* writer's address.
C18_SelfStopOwnAddress ==
    cur.type = "EndpointTerminatedEvent" =>
      ((Ops(calls) = <<"Stop">>) <=> (cur.Address = Address))

(***************************************************************************)
(* The table of type names                                                 *)
(***************************************************************************)
\* The type name Serialize returns for delivery i of the input.
TypeNameOf(i) == Serialize(input[i].message, 0).typeName

\* The first delivery of the input with type name n.
FirstUse(n) == CHOOSE i \in 1..Len(input) :
                 /\ TypeNameOf(i) = n
                 /\ \A j \in 1..(i - 1) : TypeNameOf(j) # n

\* The table of type names of the first n deliveries of the input.
TypeNamesOfPrefix(n) == Assemble(SubSeq(input, 1, n)).batch.TypeNames

\* C19: the table of type names holds each type name of the batch once, in
\* the order of first occurrence; the table of a prefix of the batch is a
\* prefix of the table of the batch; and the type index of every envelope
\* designates the type name Serialize returned for its payload.
C19_TypeTable ==
    Assembled =>
      /\ \A k, l \in 1..Len(TypeNames) :
           k # l => TypeNames[k] # TypeNames[l]
      /\ Range(TypeNames) = {TypeNameOf(i) : i \in 1..Len(input)}
      /\ \A k, l \in 1..Len(TypeNames) :
           k < l => FirstUse(TypeNames[k]) < FirstUse(TypeNames[l])
      /\ \A n \in 0..Len(input) :
           /\ Len(TypeNamesOfPrefix(n)) <= Len(TypeNames)
           /\ TypeNamesOfPrefix(n) = SubSeq(TypeNames, 1, Len(TypeNamesOfPrefix(n)))
      /\ \A i \in 1..Len(input) :
           /\ Envelopes[i].TypeId + 1 \in 1..Len(TypeNames)
           /\ TypeNames[Envelopes[i].TypeId + 1] = TypeNameOf(i)

\* Two deliveries of two types, the second type first in the alphabet:
\* the table follows the batch.
C19_Witness ==
    /\ Assembled
    /\ Len(input) = 2
    /\ TypeNames = <<"remote.pong", "remote.ping">>
    /\ Envelopes[1].TypeId = 0
    /\ Envelopes[2].TypeId = 1

(***************************************************************************)
(* The order of the events                                                 *)
(***************************************************************************)
\* C20: on every connection the Connected event is published before any
\* Terminated event of the monitor of that connection.
C20_ConnectedFirst ==
    \A s \in Streams :
      \A k \in 1..Len(events[s]) :
        events[s][k].type = "EndpointTerminatedEvent" =>
          \E j \in 1..(k - 1) : events[s][j].type = "EndpointConnectedEvent"

TypeOK ==
    /\ phase \in {"idle", "connecting", "ready", "faulted", "restarting",
                  "stopping", "stopped"}
    /\ conn \in {0} \cup Streams
    /\ stream \in {0} \cup Streams
    /\ Len(stash) <= 1
=============================================================================
